---- MODULE Spec2Model ----
(***************************************************************************)
(* State-machine model of the three codecs of the repository:              *)
(*   src/src/lz77.py     LZ77    (sliding window)                          *)
(*   src/src/lzw.py      LZW     (adaptive dictionary)                     *)
(*   src/src/huffman.py  Huffman (static prefix code)                      *)
(* Python sequences are 0-based; the model keeps the 0-based positions of  *)
(* the source and converts on access with At0.                             *)
(***************************************************************************)
EXTENDS Integers, Sequences, FiniteSets, TLC

\* ------------------------------------------------------------------ bounds
MaxLen77 == 6
MaxBuf == 3
MaxLook == 3

\* byte values the LZ77 inputs are drawn from ("a", "b")
Bytes77 == {97, 98}

\* a Python byte holds 0..255 (bytes(...) raises ValueError otherwise)
ByteLimit == 256

MaxLenW == 4

MaxLenH == 4
MaxCalls == 2

\* characters the Huffman messages are drawn from
SymsH == {"a", "b", "c"}

\* code points the LZW texts are drawn from ("a", "b", Cyrillic "a" = D0 B0)
CharsW == {97, 98, 1072}

VARIABLES
    \* ---- LZ77 instance
    raw77,            \* self._raw_data_bytes
    buffer_size,      \* self.buffer_size
    lookahead_size,   \* self.lookahead_size
    buffer,           \* self._buffer
    pos77,            \* local i of compress()
    tokens,           \* local compressed of compress(), then its return value
    reads,            \* window reads done by the latest _find_match call
    found,            \* the latest _find_match call: window, position, result
    compressed77,     \* self.compressed_data
    decompressed77,   \* local decompressed of decompress()
    dpos77,           \* local i of decompress()
    pc77              \* control position of the LZ77 run

vars77 == <<raw77, buffer_size, lookahead_size, buffer, pos77, tokens, reads,
            found, compressed77, decompressed77, dpos77, pc77>>

VARIABLES
    \* ---- LZW instance
    raw_dataW,        \* self.raw_data (text, as code points)
    rawW,             \* self.raw_data_bytes
    start_dictionary, \* local start_dictionary of compress()
    dictionary,       \* local dictionary of compress()
    posW,             \* local i of compress()
    codes,            \* local compressed of compress()
    emitted,          \* history: the encoder dictionary at each emitted code
    compressedW,      \* self.compressed_data
    dec_codes,        \* local compressed of decompress()
    dec_dictionary,   \* local dictionary of decompress()
    prev_i,           \* local prev_i of decompress()
    dec_k,            \* number of codes decompress() has processed
    decompressedW,    \* local decompressed of decompress()
    resultW,          \* return value of decompress()
    pcW               \* control position of the LZW run

varsW == <<raw_dataW, rawW, start_dictionary, dictionary, posW, codes, emitted,
           compressedW, dec_codes, dec_dictionary, prev_i, dec_k,
           decompressedW, resultW, pcW>>

VARIABLES
    \* ---- Huffman (module huffman and the current Huffman instance)
    message,          \* self.message
    dct_prob,         \* self.dct_prob
    heap,             \* the Node objects created so far, by reference
    nodes,            \* local nodes of encode()
    dct_default,      \* the default-argument dict `dct` of assign_code
    dct_codes,        \* self.dct_codes
    encoded_message,  \* self.encoded_message
    tree,             \* self.tree
    res,              \* local res of decode()
    child_tree,       \* local child_tree of decode()
    bitpos,           \* number of bits decode() has consumed
    calls,            \* number of encode() calls started in this process
    pcH               \* control position of the Huffman run

varsH == <<message, dct_prob, heap, nodes, dct_default, dct_codes,
           encoded_message, tree, res, child_tree, bitpos, calls, pcH>>

vars == <<vars77, varsW, varsH>>

\* ----------------------------------------------------------- Python helpers
Min(a, b) == IF a < b THEN a ELSE b
Max(a, b) == IF a > b THEN a ELSE b

\* s[k] of Python, k a valid 0-based index
At0(s, k) == s[k + 1]

\* every sequence over S of length 0..n
SeqsUpTo(S, n) == UNION {[1..k -> S] : k \in 0..n}

\* Python's s[start:stop] with the clamping of negative / too large bounds
PyBound(n, b) == IF b < 0 THEN Max(n + b, 0) ELSE Min(b, n)
PySlice(s, start, stop) ==
    LET lo == PyBound(Len(s), start)
        hi == PyBound(Len(s), stop)
    IN IF lo >= hi THEN <<>> ELSE SubSeq(s, lo + 1, hi)

\* Python's s[start:]
PySliceFrom(s, start) == PySlice(s, start, Len(s))
\* variant: the copy stops at the end of buffer_part instead of cycling
CycleTake_NoCycle(part, n) == SubSeq(part, 1, Min(n, Len(part)))

\* bytes(islice(cycle(part), n))
CycleTake(part, n) ==
    IF Len(part) = 0 THEN <<>>
    ELSE [k \in 1..n |-> part[((k - 1) % Len(part)) + 1]]
\* variant: the modulo taken of the whole sum
BufferIndex_ModSum(i, length, buflen) == (i + length) % (buflen - i)

\* ------------------------------------------------------------------- LZ77
\* index of self._buffer read at extension step `length` for candidate i
\* (lz77.py line 84:  i + length % (len(self._buffer) - i) )
BufferIndex(i, length, buflen) == i + (length % (buflen - i))

\* the inner for-loop of _find_match: value of `length` after the loop and
\* the number of window reads it made
RECURSIVE ExtendMatch(_, _, _, _, _, _)
ExtendMatch(buf, raw, look, i, position, length) ==
    IF position + length >= Len(raw)
    THEN [length |-> length, nreads |-> length]
    ELSE IF At0(buf, BufferIndex(i, length, Len(buf))) # At0(raw, position + length)
    THEN [length |-> length, nreads |-> length + 1]
    ELSE IF length + 1 >= look
    THEN [length |-> length, nreads |-> length + 1]
    ELSE ExtendMatch(buf, raw, look, i, position, length + 1)

MatchOf(buf, raw, look, i, position) ==
    IF look <= 0 THEN [length |-> 0, nreads |-> 0]
    ELSE ExtendMatch(buf, raw, look, i, position, 0)

\* candidate start indices of _find_match, in scan order
Candidates(buf, raw, position) ==
    {i \in 0..(Len(buf) - 1) : At0(buf, i) = At0(raw, position)}

\* possible_matches as a function of the candidate index: (offset, length)
PossibleMatch(buf, raw, look, i, position) ==
    <<Len(buf) - i - 1, MatchOf(buf, raw, look, i, position).length>>

\* possible_matches: the list built by the scan, for the candidates from
\* index i on, in increasing order of i
RECURSIVE PossibleMatchesFrom(_, _, _, _, _)
PossibleMatchesFrom(buf, raw, look, i, position) ==
    IF i >= Len(buf) THEN <<>>
    ELSE (IF i \in Candidates(buf, raw, position)
          THEN <<PossibleMatch(buf, raw, look, i, position)>>
          ELSE <<>>)
         \o PossibleMatchesFrom(buf, raw, look, i + 1, position)

\* variant: a later element replaces the running maximum on an equal key
RECURSIVE MaxByLength_LastWins(_, _)
MaxByLength_LastWins(best, rest) ==
    IF Len(rest) = 0 THEN best
    ELSE MaxByLength_LastWins(IF Head(rest)[2] >= best[2] THEN Head(rest) ELSE best,
                              Tail(rest))

\* max(..., key=lambda x: x[1]) on a non-empty list: the running maximum
\* is replaced only by an element with a strictly greater key
RECURSIVE MaxByLength(_, _)
MaxByLength(best, rest) ==
    IF Len(rest) = 0 THEN best
    ELSE MaxByLength(IF Head(rest)[2] > best[2] THEN Head(rest) ELSE best,
                     Tail(rest))

\* longest_match = max(possible_matches, key=lambda x: x[1])
LongestMatch(buf, raw, look, position) ==
    LET possible_matches == PossibleMatchesFrom(buf, raw, look, 0, position)
    IN MaxByLength(Head(possible_matches), Tail(possible_matches))

\* _find_match(position) -> (offset, length, char)
FindMatch(buf, raw, look, position) ==
    IF Candidates(buf, raw, position) = {}
    THEN <<0, 0, At0(raw, position)>>
    ELSE LET longest_match == LongestMatch(buf, raw, look, position)
         IN IF Len(raw) = position + longest_match[2]
            THEN <<longest_match[1], longest_match[2] - 1, At0(raw, Len(raw) - 1)>>
            ELSE <<longest_match[1], longest_match[2],
                   At0(raw, position + longest_match[2])>>

\* the window reads of one _find_match call
ReadsOf(buf, raw, look, position) ==
    {[i |-> i, length |-> l, buflen |-> Len(buf),
      idx |-> BufferIndex(i, l, Len(buf))] :
        <<i, l>> \in {p \in Candidates(buf, raw, position) \X (0..Max(look, 1)) :
                        p[2] < MatchOf(buf, raw, look, p[1], position).nreads}}
\* variant: the window is never cut back to buffer_size
TruncateBuffer_Keep(buf, size) == buf

\* the truncation of self._buffer at the end of a compress() iteration
TruncateBuffer(buf, size) ==
    IF Len(buf) > size THEN PySliceFrom(buf, -size) ELSE buf

\* bytes(item for sublist in tokens for item in sublist)
RECURSIVE Flatten(_)
Flatten(toks) ==
    IF Len(toks) = 0 THEN <<>> ELSE Head(toks) \o Flatten(Tail(toks))

IsBytes(s) == \A k \in 1..Len(s) : s[k] \in 0..(ByteLimit - 1)

\* one iteration of the while loop of compress()
LZ77CompressStep ==
    /\ pc77 = "compress"
    /\ pos77 < Len(raw77)
    /\ LET tok == FindMatch(buffer, raw77, lookahead_size, pos77)
           length == tok[2]
       IN /\ tokens' = Append(tokens, tok)
          /\ reads' = ReadsOf(buffer, raw77, lookahead_size, pos77)
          /\ found' = [window |-> buffer, position |-> pos77, result |-> tok]
          /\ buffer' = TruncateBuffer(
                           buffer \o PySlice(raw77, pos77, pos77 + length + 1),
                           buffer_size)
          /\ pos77' = pos77 + length + 1
    /\ UNCHANGED <<raw77, buffer_size, lookahead_size, compressed77,
                   decompressed77, dpos77, pc77>>
    /\ UNCHANGED <<varsW, varsH>>

\* loop exit of compress() and the rest of compress_and_set()
LZ77CompressAndSet ==
    /\ pc77 = "compress"
    /\ pos77 >= Len(raw77)
    /\ buffer' = <<>>
    /\ IF IsBytes(Flatten(tokens))
       THEN /\ compressed77' = Flatten(tokens)
            /\ pc77' = "decompress"
       ELSE /\ compressed77' = compressed77
            /\ pc77' = "ValueError"
    /\ UNCHANGED <<raw77, buffer_size, lookahead_size, pos77, tokens, reads,
                   found, decompressed77, dpos77>>
    /\ UNCHANGED <<varsW, varsH>>

\* one iteration of the for loop of decompress()
LZ77DecompressStep ==
    /\ pc77 = "decompress"
    /\ dpos77 < Len(compressed77)
    /\ LET code == PySlice(compressed77, dpos77, dpos77 + 3)
           offset == code[1]
           length == code[2]
           char == code[3]
           buffer_part == PySlice(decompressed77, -offset - 1,
                                  Len(decompressed77) - offset - 1 + length)
       IN decompressed77' =
              decompressed77 \o CycleTake(buffer_part, length) \o <<char>>
    /\ dpos77' = dpos77 + 3
    /\ UNCHANGED <<raw77, buffer_size, lookahead_size, buffer, pos77, tokens,
                   reads, found, compressed77, pc77>>
    /\ UNCHANGED <<varsW, varsH>>

\* loop exit of decompress(): return decompressed
LZ77DecompressReturn ==
    /\ pc77 = "decompress"
    /\ dpos77 >= Len(compressed77)
    /\ pc77' = "done"
    /\ UNCHANGED <<raw77, buffer_size, lookahead_size, buffer, pos77, tokens,
                   reads, found, compressed77, decompressed77, dpos77>>
    /\ UNCHANGED <<varsW, varsH>>

Next77 ==
    \/ LZ77CompressStep
    \/ LZ77CompressAndSet
    \/ LZ77DecompressStep
    \/ LZ77DecompressReturn

\* -------------------------------------------------------------------- LZW
\* str.encode("utf-8") for code points below 2048 (1- and 2-byte forms)
RECURSIVE UTF8Encode(_)
UTF8Encode(text) ==
    IF Len(text) = 0 THEN <<>>
    ELSE LET cp == Head(text)
         IN (IF cp < 128 THEN <<cp>>
             ELSE <<192 + (cp \div 64), 128 + (cp % 64)>>)
            \o UTF8Encode(Tail(text))

\* bytes.decode("utf-8") for the 1- and 2-byte forms; <<-1>> stands for
\* the UnicodeDecodeError raised on any other byte sequence
RECURSIVE UTF8Decode(_)
UTF8Decode(bs) ==
    IF Len(bs) = 0 THEN <<>>
    ELSE IF bs[1] < 128
    THEN LET rest == UTF8Decode(Tail(bs))
         IN IF rest = <<-1>> THEN rest ELSE <<bs[1]>> \o rest
    ELSE IF /\ bs[1] >= 194 /\ bs[1] < 224
            /\ Len(bs) >= 2 /\ bs[2] >= 128 /\ bs[2] < 192
    THEN LET rest == UTF8Decode(Tail(Tail(bs)))
         IN IF rest = <<-1>> THEN rest
            ELSE <<(bs[1] - 192) * 64 + (bs[2] - 128)>> \o rest
    ELSE <<-1>>

\* struct.pack("I", n) on a little-endian build, struct.pack(">I", n)
Pack32LE(n) ==
    <<n % 256, (n \div 256) % 256, (n \div 65536) % 256, (n \div 16777216) % 256>>
Pack32BE(n) ==
    <<(n \div 16777216) % 256, (n \div 65536) % 256, (n \div 256) % 256, n % 256>>

\* struct.unpack("I", b)[0], struct.unpack(">I", b)[0] on 4 bytes
Unpack32LE(b) == b[1] + 256 * b[2] + 65536 * b[3] + 16777216 * b[4]
Unpack32BE(b) == b[4] + 256 * b[3] + 65536 * b[2] + 16777216 * b[1]

\* x in lst
ListHas(lst, x) == \E k \in 1..Len(lst) : lst[k] = x

\* lst.index(x): the first 0-based index; -2 stands for the ValueError
ListIndex(lst, x) ==
    IF ListHas(lst, x)
    THEN (CHOOSE k \in 1..Len(lst) :
              lst[k] = x /\ \A j \in 1..(k - 1) : lst[j] # x) - 1
    ELSE -2

\* find_longest_prefix(dictionary, sequence); n is len(prefix) so far
RECURSIVE LongestPrefixFrom(_, _, _)
LongestPrefixFrom(dict, sequence, n) ==
    IF n >= Len(sequence)
    THEN ListIndex(dict, SubSeq(sequence, 1, n))
    ELSE IF ListHas(dict, SubSeq(sequence, 1, n + 1))
    THEN LongestPrefixFrom(dict, sequence, n + 1)
    ELSE ListIndex(dict, SubSeq(sequence, 1, n))

find_longest_prefix(dict, sequence) == LongestPrefixFrom(dict, sequence, 0)

\* the enumeration orders list(set(b)) may produce for the bytes b
SetOrders(b) ==
    LET S == {b[k] : k \in 1..Len(b)}
    IN {f \in [1..Cardinality(S) -> S] : \A x \in S : \E k \in DOMAIN f : f[k] = x}

\* [[i] for i in start_dict]
SeedDictionary(start) == [k \in 1..Len(start) |-> <<start[k]>>]

\* compressed_bytes: the concatenation of struct.pack(">I", i)
RECURSIVE PackCodes(_)
PackCodes(cs) ==
    IF Len(cs) = 0 THEN <<>> ELSE Pack32BE(Head(cs)) \o PackCodes(Tail(cs))
\* variant: the second header holds the number of codes, not of bytes
Payload_CodeCount(start, cs) ==
    Pack32LE(Len(start)) \o start \o Pack32LE(Len(cs)) \o PackCodes(cs)

\* the return value of compress()
Payload(start, cs) ==
    Pack32LE(Len(start)) \o start \o Pack32LE(Len(PackCodes(cs))) \o PackCodes(cs)

\* lines 107-114 of decompress(): the header and the code list
ParseStartDict(data) ==
    PySlice(data, 4, 4 + Unpack32LE(PySlice(data, 0, 4)))
ParseCodes(data) ==
    LET start_dict_size == Unpack32LE(PySlice(data, 0, 4))
        compressed_size ==
            Unpack32LE(PySlice(data, 4 + start_dict_size, 8 + start_dict_size))
    IN [k \in 1..((compressed_size + 3) \div 4) |->
           Unpack32BE(PySlice(data, 8 + start_dict_size + 4 * (k - 1),
                              8 + start_dict_size + 4 * k))]

\* lines 32-35 of compress()
LZWCompressStart ==
    /\ pcW = "start"
    /\ start_dictionary' \in SetOrders(rawW)
    /\ dictionary' = SeedDictionary(start_dictionary')
    /\ posW' = 0
    /\ codes' = <<>>
    /\ pcW' = "compress"
    /\ UNCHANGED <<raw_dataW, rawW, emitted, compressedW, dec_codes,
                   dec_dictionary, prev_i, dec_k, decompressedW, resultW>>
    /\ UNCHANGED <<vars77, varsH>>

\* one iteration of the while loop of compress()
LZWCompressStep ==
    /\ pcW = "compress"
    /\ posW < Len(rawW)
    /\ LET prefix_id == find_longest_prefix(dictionary,
                                            PySliceFrom(rawW, posW))
       IN IF prefix_id < 0
          THEN /\ pcW' = "ValueError"
               /\ UNCHANGED <<codes, emitted, posW, dictionary>>
          ELSE LET prefix == At0(dictionary, prefix_id)
                   i == posW + Len(prefix)
               IN /\ codes' = Append(codes, prefix_id)
                  /\ emitted' = Append(emitted, dictionary)
                  /\ posW' = i
                  /\ dictionary' =
                        IF i < Len(rawW)
                        THEN Append(dictionary, prefix \o <<At0(rawW, i)>>)
                        ELSE dictionary
                  /\ pcW' = pcW
    /\ UNCHANGED <<raw_dataW, rawW, start_dictionary, compressedW, dec_codes,
                   dec_dictionary, prev_i, dec_k, decompressedW, resultW>>
    /\ UNCHANGED <<vars77, varsH>>

\* loop exit of compress(), lines 49-57, and compress_and_set()
LZWCompressAndSet ==
    /\ pcW = "compress"
    /\ posW >= Len(rawW)
    /\ compressedW' = Payload(start_dictionary, codes)
    /\ pcW' = "compressed"
    /\ UNCHANGED <<raw_dataW, rawW, start_dictionary, dictionary, posW, codes,
                   emitted, dec_codes, dec_dictionary, prev_i, dec_k,
                   decompressedW, resultW>>
    /\ UNCHANGED <<vars77, varsH>>

\* lines 107-118 of decompress(): parse the payload, emit the first code
LZWDecompressStart ==
    /\ pcW = "compressed"
    /\ dec_codes' = ParseCodes(compressedW)
    /\ dec_dictionary' = SeedDictionary(ParseStartDict(compressedW))
    /\ IF Len(dec_codes') = 0 \/ At0(dec_codes', 0) >= Len(dec_dictionary')
       THEN /\ pcW' = "IndexError"
            /\ UNCHANGED <<prev_i, dec_k, decompressedW>>
       ELSE /\ prev_i' = At0(dec_codes', 0)
            /\ decompressedW' = At0(dec_dictionary', prev_i')
            /\ dec_k' = 1
            /\ pcW' = "decompress"
    /\ UNCHANGED <<raw_dataW, rawW, start_dictionary, dictionary, posW, codes,
                   emitted, compressedW, resultW>>
    /\ UNCHANGED <<vars77, varsH>>
\* variant: the unknown-code branch repeats the last byte of the previous
\* entry instead of its first byte
LZWDecompressStep_LastByte ==
    /\ pcW = "decompress"
    /\ dec_k < Len(dec_codes)
    /\ LET i == At0(dec_codes, dec_k)
           prev == At0(dec_dictionary, prev_i)
       IN /\ IF i < Len(dec_dictionary)
             THEN /\ dec_dictionary' =
                        Append(dec_dictionary,
                               prev \o <<At0(dec_dictionary, i)[1]>>)
                  /\ decompressedW' = decompressedW \o At0(dec_dictionary', i)
             ELSE /\ dec_dictionary' =
                        Append(dec_dictionary, prev \o <<prev[Len(prev)]>>)
                  /\ decompressedW' =
                        decompressedW \o dec_dictionary'[Len(dec_dictionary')]
          /\ prev_i' = i
    /\ dec_k' = dec_k + 1
    /\ UNCHANGED <<raw_dataW, rawW, start_dictionary, dictionary, posW, codes,
                   emitted, compressedW, dec_codes, resultW, pcW>>
    /\ UNCHANGED <<vars77, varsH>>

\* one iteration of the for loop of decompress()
LZWDecompressStep ==
    /\ pcW = "decompress"
    /\ dec_k < Len(dec_codes)
    /\ LET i == At0(dec_codes, dec_k)
       IN /\ IF i < Len(dec_dictionary)
             THEN /\ dec_dictionary' =
                        Append(dec_dictionary,
                               At0(dec_dictionary, prev_i)
                                   \o <<At0(dec_dictionary, i)[1]>>)
                  /\ decompressedW' = decompressedW \o At0(dec_dictionary', i)
             ELSE /\ dec_dictionary' =
                        Append(dec_dictionary,
                               At0(dec_dictionary, prev_i)
                                   \o <<At0(dec_dictionary, prev_i)[1]>>)
                  /\ decompressedW' =
                        decompressedW \o dec_dictionary'[Len(dec_dictionary')]
          /\ prev_i' = i
    /\ dec_k' = dec_k + 1
    /\ UNCHANGED <<raw_dataW, rawW, start_dictionary, dictionary, posW, codes,
                   emitted, compressedW, dec_codes, resultW, pcW>>
    /\ UNCHANGED <<vars77, varsH>>

\* loop exit of decompress(): return bytes(decompressed).decode("utf-8")
LZWDecompressReturn ==
    /\ pcW = "decompress"
    /\ dec_k >= Len(dec_codes)
    /\ IF UTF8Decode(decompressedW) = <<-1>>
       THEN /\ pcW' = "UnicodeDecodeError"
            /\ UNCHANGED resultW
       ELSE /\ resultW' = UTF8Decode(decompressedW)
            /\ pcW' = "done"
    /\ UNCHANGED <<raw_dataW, rawW, start_dictionary, dictionary, posW, codes,
                   emitted, compressedW, dec_codes, dec_dictionary, prev_i,
                   dec_k, decompressedW>>
    /\ UNCHANGED <<vars77, varsH>>

NextW ==
    \/ LZWCompressStart
    \/ LZWCompressStep
    \/ LZWCompressAndSet
    \/ LZWDecompressStart
    \/ LZWDecompressStep
    \/ LZWDecompressReturn

\* ---------------------------------------------------------------- Huffman
\* A Node object is a record of heap; a reference is its index, None is 0.
\* prob holds the occurrence count: find_probabilities divides every count
\* by the same len(message), which keeps their order (the model leaves out
\* the rounding of the float sums).
NewNode(symbol, prob, left, right) ==
    [symbol |-> symbol, prob |-> prob, code |-> <<>>,
     left |-> left, right |-> right]

\* the keys of the dict of find_probabilities, in insertion order
RECURSIVE DistinctInOrder(_)
DistinctInOrder(msg) ==
    IF Len(msg) = 0 THEN <<>>
    ELSE LET front == DistinctInOrder(SubSeq(msg, 1, Len(msg) - 1))
             last == msg[Len(msg)]
         IN IF ListHas(front, last) THEN front ELSE Append(front, last)

Count(msg, c) == Cardinality({k \in 1..Len(msg) : msg[k] = c})

\* find_probabilities(message): (key, value) items in insertion order
find_probabilities(msg) ==
    LET keys == DistinctInOrder(msg)
    IN [k \in 1..Len(keys) |-> <<keys[k], Count(msg, keys[k])>>]

\* sorted(nodes, key=lambda x: x.prob): stable, ascending
InsertByProb(sorted, n, hp) ==
    LET before == Cardinality({k \in 1..Len(sorted) :
                                  hp[sorted[k]].prob <= hp[n].prob})
    IN SubSeq(sorted, 1, before) \o <<n>> \o SubSeq(sorted, before + 1, Len(sorted))

RECURSIVE SortedByProb(_, _)
SortedByProb(ns, hp) ==
    IF Len(ns) = 0 THEN <<>>
    ELSE InsertByProb(SortedByProb(SubSeq(ns, 1, Len(ns) - 1), hp), ns[Len(ns)], hp)

\* assign_code(Node, parent_code): the (leaf, code) pairs it assigns
RECURSIVE assign_code(_, _, _)
assign_code(hp, n, parent_code) ==
    LET new_code == parent_code \o hp[n].code
    IN (IF hp[n].left # 0 THEN assign_code(hp, hp[n].left, new_code) ELSE {})
       \cup (IF hp[n].right # 0 THEN assign_code(hp, hp[n].right, new_code) ELSE {})
       \cup (IF hp[n].left = 0 /\ hp[n].right = 0 THEN {<<n, new_code>>} ELSE {})

\* dct after the assignments dct[Node.symbol] = Node.code of one traversal
UpdatedDict(dct, hp, assigned) ==
    LET syms == {hp[a[1]].symbol : a \in assigned}
        codeOf(sym) == (CHOOSE a \in assigned : hp[a[1]].symbol = sym)[2]
    IN [sym \in (DOMAIN dct) \cup syms |->
           IF sym \in syms THEN codeOf(sym) ELSE dct[sym]]

\* the heap after the assignments Node.code = new_code of one traversal
UpdatedHeap(hp, assigned) ==
    [n \in 1..Len(hp) |->
        IF \E a \in assigned : a[1] = n
        THEN [hp[n] EXCEPT !.code = (CHOOSE a \in assigned : a[1] = n)[2]]
        ELSE hp[n]]

\* lines 95-97 of encode(): the concatenation of self.dct_codes[i]
RECURSIVE EncodeMessage(_, _)
EncodeMessage(msg, table) ==
    IF Len(msg) = 0 THEN <<>>
    ELSE table[<<Head(msg)>>] \o EncodeMessage(Tail(msg), table)

\* lines 70-75 of encode(): the frequency table and one leaf per symbol
HuffEncodeStart ==
    /\ pcH = "ready"
    /\ calls' = calls + 1
    /\ dct_prob' = find_probabilities(message)
    /\ heap' = [k \in 1..Len(dct_prob') |->
                   NewNode(<<dct_prob'[k][1]>>, dct_prob'[k][2], 0, 0)]
    /\ nodes' = [k \in 1..Len(dct_prob') |-> k]
    /\ pcH' = "merge"
    /\ UNCHANGED <<message, dct_default, dct_codes, encoded_message, tree, res,
                   child_tree, bitpos>>
    /\ UNCHANGED <<vars77, varsW>>

\* one iteration of the while loop of encode()
HuffMerge ==
    /\ pcH = "merge"
    /\ Len(nodes) > 1
    /\ LET sorted == SortedByProb(nodes, heap)
           right == sorted[1]
           left == sorted[2]
           labelled == [heap EXCEPT ![right].code = <<1>>, ![left].code = <<0>>]
           combined == NewNode(heap[right].symbol \o heap[left].symbol,
                               heap[right].prob + heap[left].prob, left, right)
       IN /\ heap' = Append(labelled, combined)
          /\ nodes' = Append(SubSeq(sorted, 3, Len(sorted)), Len(heap) + 1)
    /\ UNCHANGED <<message, dct_prob, dct_default, dct_codes, encoded_message,
                   tree, res, child_tree, bitpos, calls, pcH>>
    /\ UNCHANGED <<vars77, varsW>>

\* loop exit of encode(), lines 92-100
HuffEncodeFinish ==
    /\ pcH = "merge"
    /\ Len(nodes) <= 1
    /\ IF Len(nodes) = 0
       THEN /\ pcH' = "IndexError"
            /\ UNCHANGED <<heap, dct_default, dct_codes, encoded_message, tree>>
       ELSE LET assigned == assign_code(heap, nodes[1], <<>>)
            IN /\ heap' = UpdatedHeap(heap, assigned)
               /\ dct_default' = UpdatedDict(dct_default, heap, assigned)
               /\ dct_codes' = dct_default'
               /\ encoded_message' = EncodeMessage(message, dct_codes')
               /\ tree' = nodes[1]
               /\ pcH' = "encoded"
    /\ UNCHANGED <<message, dct_prob, nodes, res, child_tree, bitpos, calls>>
    /\ UNCHANGED <<vars77, varsW>>

\* the caller hands decode() a bitstring cut short: self.encoded_message is
\* replaced by one of its proper prefixes
HuffTruncate ==
    /\ pcH = "encoded"
    /\ \E n \in 0..(Len(encoded_message) - 1) :
           encoded_message' = PySlice(encoded_message, 0, n)
    /\ pcH' = "truncated"
    /\ UNCHANGED <<message, dct_prob, heap, nodes, dct_default, dct_codes, tree,
                   res, child_tree, bitpos, calls>>
    /\ UNCHANGED <<vars77, varsW>>

\* lines 105-107 of decode()
HuffDecodeStart ==
    /\ pcH \in {"encoded", "truncated"}
    /\ res' = <<>>
    /\ child_tree' = tree
    /\ bitpos' = 0
    /\ pcH' = "decode"
    /\ UNCHANGED <<message, dct_prob, heap, nodes, dct_default, dct_codes,
                   encoded_message, tree, calls>>
    /\ UNCHANGED <<vars77, varsW>>

\* one iteration of the for loop of decode()
HuffDecodeStep ==
    /\ pcH = "decode"
    /\ bitpos < Len(encoded_message)
    /\ LET i == At0(encoded_message, bitpos)
           stepped == IF i = 0 THEN heap[child_tree].left
                      ELSE IF i = 1 THEN heap[child_tree].right
                      ELSE child_tree
       IN IF stepped = 0
          THEN \* child_tree is None: the except clause raises AttributeError
               /\ pcH' = "AttributeError"
               /\ UNCHANGED <<res, child_tree>>
          ELSE IF heap[stepped].left = 0
          THEN \* child_tree.left.symbol raises AttributeError: a leaf
               /\ res' = res \o heap[stepped].symbol
               /\ child_tree' = tree
               /\ pcH' = pcH
          ELSE /\ res' = res
               /\ child_tree' = stepped
               /\ pcH' = pcH
    /\ bitpos' = bitpos + 1
    /\ UNCHANGED <<message, dct_prob, heap, nodes, dct_default, dct_codes,
                   encoded_message, tree, calls>>
    /\ UNCHANGED <<vars77, varsW>>

\* loop exit of decode(): return res
HuffDecodeReturn ==
    /\ pcH = "decode"
    /\ bitpos >= Len(encoded_message)
    /\ pcH' = "decoded"
    /\ UNCHANGED <<message, dct_prob, heap, nodes, dct_default, dct_codes,
                   encoded_message, tree, res, child_tree, bitpos, calls>>
    /\ UNCHANGED <<vars77, varsW>>

\* the next Huffman(file_name) of the same process (as in find_time)
HuffNewInstance ==
    /\ pcH = "decoded"
    /\ calls < MaxCalls
    /\ message' \in SeqsUpTo(SymsH, MaxLenH)
    /\ dct_prob' = <<>>
    /\ heap' = <<>>
    /\ nodes' = <<>>
    /\ dct_codes' = <<>>
    /\ encoded_message' = <<>>
    /\ tree' = 0
    /\ res' = <<>>
    /\ child_tree' = 0
    /\ bitpos' = 0
    /\ pcH' = "ready"
    /\ UNCHANGED <<dct_default, calls>>
    /\ UNCHANGED <<vars77, varsW>>

NextH ==
    \/ HuffEncodeStart
    \/ HuffMerge
    \/ HuffEncodeFinish
    \/ HuffTruncate
    \/ HuffDecodeStart
    \/ HuffDecodeStep
    \/ HuffDecodeReturn
    \/ HuffNewInstance

\* ------------------------------------------------------------- properties
\* a token whose copy is longer than the span it refers back to
SelfOverlap(tok) == tok[2] > tok[1] + 1

UnknownCodeSeen ==
    \E k \in 2..dec_k : dec_codes[k] >= Len(start_dictionary) + (k - 2)

LZWFailed == pcW \in {"ValueError", "IndexError", "UnicodeDecodeError"}

\* C2: for every text of length >= 1, bytes >= 128 included, decompress()
\* of the payload of compress() succeeds and returns exactly the text.
C2_LZWRoundTrip ==
    (Len(raw_dataW) >= 1) =>
        /\ ~LZWFailed
        /\ (pcW = "done" => resultW = raw_dataW)

\* a finished round trip of a text with a multi-byte character, in which
\* the decoder went through its unknown-code branch
C2_Witness ==
    /\ pcW = "done"
    /\ resultW = raw_dataW
    /\ \E k \in 1..Len(rawW) : rawW[k] >= 128
    /\ UnknownCodeSeen

\* the bitstring decode() reads is the one encode() produced
Intact == encoded_message = EncodeMessage(message, dct_codes)

\* C3: for every message of length >= 1, single-symbol messages included,
\* decode() of the bitstring and tree of encode() returns the message.
C3_HuffmanRoundTrip ==
    (pcH = "decoded" /\ Len(message) >= 1 /\ Intact) => res = message

\* the leaves of the tree rooted at n
RECURSIVE Leaves(_, _)
Leaves(hp, n) ==
    IF n = 0 THEN {}
    ELSE IF hp[n].left = 0 /\ hp[n].right = 0 THEN {n}
    ELSE Leaves(hp, hp[n].left) \cup Leaves(hp, hp[n].right)

IsPrefix(a, b) == Len(a) <= Len(b) /\ SubSeq(b, 1, Len(a)) = a

\* C4: for every non-empty message, every leaf of the tree built by
\* encode() has a non-empty code and no leaf's code is a prefix of the code
\* of another leaf.
C4_LeafCodesPrefixFree ==
    (pcH = "encoded" /\ Len(message) >= 1) =>
        /\ \A l \in Leaves(heap, tree) : heap[l].code # <<>>
        /\ \A l1, l2 \in Leaves(heap, tree) :
               (l1 # l2) => ~IsPrefix(heap[l1].code, heap[l2].code)

\* C5: after any sequence of encode() calls, the keys of the code table of
\* the latest call are exactly the distinct symbols of its message.
C5_NoRetainedCodes ==
    (pcH = "encoded") =>
        DOMAIN dct_codes = {<<message[k]>> : k \in 1..Len(message)}

\* the compress / encode entry point has returned a result
Returned77 == pc77 \in {"decompress", "done"}
ReturnedW == pcW \in {"compressed", "decompress", "done", "IndexError",
                      "UnicodeDecodeError"}
ReturnedH == pcH \in {"encoded", "truncated", "decode", "decoded",
                      "AttributeError"}

\* C6: given zero-length input, Huffman.encode, LZ77.compress and
\* LZW.compress each raise an error instead of returning a result.
C6_EmptyInputRaises ==
    /\ (Len(raw77) = 0 => ~Returned77)
    /\ (Len(raw_dataW) = 0 => ~ReturnedW)
    /\ (Len(message) = 0 => ~ReturnedH)

\* C7: while decompress() replays the codes of compress(), its dictionary
\* after the k-th code equals, index for index, the dictionary compress()
\* held when it emitted the k-th code, for every k.
C7_DictionariesAgree ==
    (pcW \in {"decompress", "done"} /\ Len(raw_dataW) >= 1) =>
        /\ dec_codes = codes
        /\ dec_k >= 1
        /\ dec_k <= Len(emitted)
        /\ dec_dictionary = emitted[dec_k]

\* the replay has gone through the unknown-code branch with a previous
\* entry whose first and last bytes differ, and has processed every code
C7_Witness ==
    /\ pcW = "done"
    /\ dec_k = Len(emitted)
    /\ dec_dictionary = emitted[dec_k]
    /\ \E k \in 2..dec_k :
           /\ dec_codes[k] >= Len(start_dictionary) + (k - 2)
           /\ LET prev == At0(dec_dictionary, dec_codes[k - 1])
              IN prev[1] # prev[Len(prev)]

\* C8: decode() fails with an error when the bitstring ends before a leaf
\* is reached; it never returns a partial message.
C8_TruncatedDecodeFails ==
    ~(pcH = "decoded" /\ child_tree # tree)

\* C9: with 1 <= buffer_size <= 256 and 1 <= lookahead_size <= 256, every
\* emitted token has 0 <= offset < buffer_size, 0 <= length <
\* lookahead_size, and all three fields in 0..255.
C9_TokenFieldsInRange ==
    (buffer_size \in 1..256 /\ lookahead_size \in 1..256) =>
        \A k \in 1..Len(tokens) :
            /\ 0 <= tokens[k][1] /\ tokens[k][1] < buffer_size
            /\ 0 <= tokens[k][2] /\ tokens[k][2] < lookahead_size
            /\ \A f \in 1..3 : tokens[k][f] \in 0..255

\* a token at both upper limits: offset buffer_size - 1 out of a full
\* window and length lookahead_size - 1
C9_Witness ==
    /\ buffer_size >= 2
    /\ lookahead_size >= 2
    /\ \E k \in 1..Len(tokens) :
           /\ tokens[k][1] = buffer_size - 1
           /\ tokens[k][2] = lookahead_size - 1

\* C10 as stated: the window index read at extension step `length` for the
\* candidate i is (i + length) mod (|window| - i).
C10_ReadsModOfSum ==
    \A r \in reads : r.idx = (r.i + r.length) % (r.buflen - r.i)

\* C10 amended: the window index read at extension step `length` for the
\* candidate i is i + (length mod (|window| - i)): the read cycles over
\* the part of the window that starts at i.
C10_ReadsCycleFromCandidate ==
    \A r \in reads :
        /\ r.i <= r.idx /\ r.idx < r.buflen
        /\ r.idx - r.i = r.length % (r.buflen - r.i)

\* a read that has wrapped around, for a candidate that is not the start
\* of the window
C10_Witness ==
    \E r \in reads : r.i > 0 /\ r.length >= r.buflen - r.i

\* the length _find_match measured for the candidate i of its latest call
Measured(i) ==
    MatchOf(found.window, raw77, lookahead_size, i, found.position).length

CandidatesFound == Candidates(found.window, raw77, found.position)

\* C11: _find_match selects, among the candidate start indices i with
\* window[i] = input[position], one with the maximum measured length; among
\* several with that maximum it selects the smallest i, i.e. the largest
\* offset; without a candidate it returns (0, 0, input[position]).
C11_SelectsFirstLongest ==
    (found.result # <<>>) =>
        IF CandidatesFound = {}
        THEN found.result = <<0, 0, At0(raw77, found.position)>>
        ELSE \E i \in CandidatesFound :
                /\ found.result[1] = Len(found.window) - i - 1
                /\ \A j \in CandidatesFound : Measured(j) <= Measured(i)
                /\ \A j \in CandidatesFound :
                       (Measured(j) = Measured(i)) => i <= j

\* a call with a shorter candidate scanned first and two later candidates
\* that tie at the maximum, answered with the offset of the first of the two
C11_Witness ==
    /\ found.result # <<>>
    /\ \E h, i, j \in CandidatesFound :
           /\ h < i /\ i < j
           /\ Measured(h) < Measured(i)
           /\ Measured(j) = Measured(i)
           /\ \A k \in CandidatesFound : Measured(k) <= Measured(i)
           /\ found.result[1] = Len(found.window) - i - 1

\* --------------------------------------------------------- specifications
\* Each specification starts one codec on every input in the bounds; the
\* objects of the other two codecs stay as their constructors leave them
\* (default arguments: empty input, both LZ77 sizes 256).

\* LZ77(raw_data, buffer_size, lookahead_size) for every input in the bounds
InitLZ77 ==
    /\ raw77 \in SeqsUpTo(Bytes77, MaxLen77)
    /\ buffer_size \in 0..MaxBuf
    /\ lookahead_size \in 0..MaxLook
    /\ buffer = <<>> /\ pos77 = 0 /\ tokens = <<>> /\ reads = {}
    /\ found = [window |-> <<>>, position |-> 0, result |-> <<>>]
    /\ compressed77 = <<>> /\ decompressed77 = <<>> /\ dpos77 = 0
    /\ pc77 = "compress"
    /\ raw_dataW = <<>> /\ rawW = <<>>
    /\ start_dictionary = <<>> /\ dictionary = <<>> /\ posW = 0
    /\ codes = <<>> /\ emitted = <<>> /\ compressedW = <<>>
    /\ dec_codes = <<>> /\ dec_dictionary = <<>> /\ prev_i = 0 /\ dec_k = 0
    /\ decompressedW = <<>> /\ resultW = <<>> /\ pcW = "start"
    /\ message = <<>> /\ dct_prob = <<>> /\ heap = <<>> /\ nodes = <<>>
    /\ dct_default = <<>> /\ dct_codes = <<>> /\ encoded_message = <<>>
    /\ tree = 0 /\ res = <<>> /\ child_tree = 0 /\ bitpos = 0 /\ calls = 0
    /\ pcH = "ready"

\* LZW(raw_data) for every text in the bounds
InitLZW ==
    /\ raw77 = <<>> /\ buffer_size = 256 /\ lookahead_size = 256
    /\ buffer = <<>> /\ pos77 = 0 /\ tokens = <<>> /\ reads = {}
    /\ found = [window |-> <<>>, position |-> 0, result |-> <<>>]
    /\ compressed77 = <<>> /\ decompressed77 = <<>> /\ dpos77 = 0
    /\ pc77 = "compress"
    /\ raw_dataW \in SeqsUpTo(CharsW, MaxLenW)
    /\ rawW = UTF8Encode(raw_dataW)
    /\ start_dictionary = <<>> /\ dictionary = <<>> /\ posW = 0
    /\ codes = <<>> /\ emitted = <<>> /\ compressedW = <<>>
    /\ dec_codes = <<>> /\ dec_dictionary = <<>> /\ prev_i = 0 /\ dec_k = 0
    /\ decompressedW = <<>> /\ resultW = <<>> /\ pcW = "start"
    /\ message = <<>> /\ dct_prob = <<>> /\ heap = <<>> /\ nodes = <<>>
    /\ dct_default = <<>> /\ dct_codes = <<>> /\ encoded_message = <<>>
    /\ tree = 0 /\ res = <<>> /\ child_tree = 0 /\ bitpos = 0 /\ calls = 0
    /\ pcH = "ready"

\* import of huffman, then Huffman(file_name) and get_message() for every
\* message in the bounds
InitHuffman ==
    /\ raw77 = <<>> /\ buffer_size = 256 /\ lookahead_size = 256
    /\ buffer = <<>> /\ pos77 = 0 /\ tokens = <<>> /\ reads = {}
    /\ found = [window |-> <<>>, position |-> 0, result |-> <<>>]
    /\ compressed77 = <<>> /\ decompressed77 = <<>> /\ dpos77 = 0
    /\ pc77 = "compress"
    /\ raw_dataW = <<>> /\ rawW = <<>>
    /\ start_dictionary = <<>> /\ dictionary = <<>> /\ posW = 0
    /\ codes = <<>> /\ emitted = <<>> /\ compressedW = <<>>
    /\ dec_codes = <<>> /\ dec_dictionary = <<>> /\ prev_i = 0 /\ dec_k = 0
    /\ decompressedW = <<>> /\ resultW = <<>> /\ pcW = "start"
    /\ message \in SeqsUpTo(SymsH, MaxLenH)
    /\ dct_prob = <<>> /\ heap = <<>> /\ nodes = <<>>
    /\ dct_default = <<>> /\ dct_codes = <<>> /\ encoded_message = <<>>
    /\ tree = 0 /\ res = <<>> /\ child_tree = 0 /\ bitpos = 0 /\ calls = 0
    /\ pcH = "ready"

SpecLZ77 == InitLZ77 /\ [][Next77]_vars

SpecLZW == InitLZW /\ [][NextW]_vars

SpecHuffman == InitHuffman /\ [][NextH]_vars

====
